---- MODULE Spec2Model ----
(***************************************************************************)
(* patch_catss.py: the repair pipeline of the CATSS corpus.                *)
(*                                                                         *)
(* patch() loads every *.par file as a list of lines, applies the manual   *)
(* edits, the three block repairs, the orphaned-line repair and the bulk   *)
(* normalizations, and writes the files and the log.                       *)
(*                                                                         *)
(* Representation.  A line (a Python str) is a tuple of its characters, so *)
(* that concatenation, substring search and substitution are computed.     *)
(* A list of lines is run-length encoded: a tuple of <<line, count>> runs  *)
(* with adjacent runs holding different lines.  A file of 16290 lines that *)
(* is almost everywhere ordinary data lines is a handful of runs, and the  *)
(* line numbers of the source (16284, 10848, ...) are used as they stand.  *)
(* Python's indexing, slicing and concatenation are the Py... operators.   *)
(***************************************************************************)
EXTENDS Integers, Sequences, FiniteSets, TLC

\* edits table: line numbers in the source
\* edit 1: src line 36: pattern 'MRY KAI'
\* edit 2: src line 37: pattern '.kb # KAI'
\* edit 3: src line 38: pattern '12 E'
\* edit 4: src line 39: pattern '<19.49> E'
\* edit 5: src line 40: pattern '\t<6.20>\t'
\* edit 6: src line 41: pattern '\t<19.49>\t'
\* edit 7: src line 42: pattern "--+ ' "
\* edit 8: src line 43: pattern "--+ ' "
\* edit 9: src line 44: pattern 'CC35.24'
\* edit 10: src line 45: pattern '{..}'
\* edit 11: src line 46: pattern 'O\t'
\* edit 12: src line 47: pattern 'T\t'
\* edit 13: src line 48: pattern 'EI)S}\t'
\* edit 14: src line 49: pattern 'OU)}\t'
\* edit 15: src line 50: pattern 'OU=} MDBR'
edits ==
  <<
    [file |-> "06.JoshB.par", ln |-> 983,
     re_confirm |-> <<"M", "R", "Y", " ", "K", "A", "I">>,
     redaction |-> <<"W", "/", ")", "T", " ", "H", "/", "G", "R", "G", "$", "Y", " ", "^", " ", "=", "W", "/", ")", "T", " ", "W", "/", "H", "/", ")", "M", "R", "Y", "\t", " ", "K", "A", "I", "\\", " ", "T", "O", "\\", "N", " ", "A", "M", "O", "R", "R", "A", "I", "=", "O", "N", " ">>],
    [file |-> "", ln |-> 1366,
     re_confirm |-> <<".", "k", "b", " ", "#", " ", "K", "A", "I">>,
     redaction |-> <<"W", "/", "H", "/", "K", "H", "N", "Y", "M", " ", "=", "W", "/", "H", "/", ")", "B", "N", "Y", "M", " ", ".", "m", " ", ".", "k", "b", " ", "#", "\t", " ", "K", "A", "I", "\\", " ", "O", "I", "(", " ", "L", "I", "/", "Q", "O", "I", " ">>],
    [file |-> "", ln |-> 3737,
     re_confirm |-> <<"1", "2", " ", "E">>,
     redaction |-> <<"W", "/", "Y", "C", "+", "Y", "R", "W", " ", "=", ";", "W", "/", "Y", "C", "+", "Y", "D", "W", " ", ".", "r", "d", " ", "<", "9", ".", "1", "2", ">", "\t", " ", "E", ")", "P", "E", "S", "I", "T", "I", "/", "S", "A", "N", "T", "O", " ", "{", "d", "}", " ", "K", "A", "I", "\\", " ", "H", "(", "T", "O", "I", "M", "A", "/", "S", "A", "N", "T", "O">>],
    [file |-> "", ln |-> 9517,
     re_confirm |-> <<"<", "1", "9", ".", "4", "9", ">", " ", "E">>,
     redaction |-> <<"-", "-", "+", " ", "'", "'", " ", "=", ";", "L", "/", "G", "B", "W", "L", "W", "T", "/", "Y", "H", "M", " ", "<", "1", "9", ".", "4", "9", ">", "\t", " ", "E", ")", "N", " ", "T", "O", "I", "=", "S", " ", "O", "(", "R", "I", "/", "O", "I", "S", " ", "A", "U", ")", "T", "W", "=", "N", " ">>],
    [file |-> "", ln |-> 2006,
     re_confirm |-> <<"\t", "<", "6", ".", "2", "0", ">", "\t">>,
     redaction |-> <<"-", "+", " ", "=", ";", "H", "/", "(", "Y", "R", "/", "H", " ", "<", "6", ".", "2", "0", ">", "\t", "E", "I", ")", "S", " ", "T", "H", "\\", "N", " ", "P", "O", "/", "L", "I", "N", " ">>],
    [file |-> "", ln |-> 9515,
     re_confirm |-> <<"\t", "<", "1", "9", ".", "4", "9", ">", "\t">>,
     redaction |-> <<"-", "-", "+", " ", "'", "'", " ", "=", ";", "M", "/", "X", "L", "Q", " ", "<", "1", "9", ".", "4", "9", ">", "\t", "D", "I", "A", "M", "E", "R", "I", "/", "S", "A", "S", " ">>],
    [file |-> "01.Genesis.par", ln |-> 9550,
     re_confirm |-> <<"-", "-", "+", " ", "'", " ">>,
     redaction |-> <<"-", "-", "+", " ", "'", "'", " ", "=", ";", "W", "/", "B", "H", " ", "<", "2", "4", ".", "1", "4", ">", "\t", "K", "A", "I", "\\", " ", "E", ")", "N", " ", "T", "O", "U", "/", "T", "W", "|">>],
    [file |-> "", ln |-> 9552,
     re_confirm |-> <<"-", "-", "+", " ", "'", " ">>,
     redaction |-> <<"-", "-", "\\", "+", " ", "'", "'", " ", "=", ";", "K", "Y", " ", "<", "2", "4", ".", "1", "4", ">", "\t", "O", "(", "/", "T", "I">>],
    [file |-> "17.1Esdras.par", ln |-> 477,
     re_confirm |-> <<"C", "C", "3", "5", ".", "2", "4">>,
     redaction |-> <<"W", "/", "Y", "(", "B", "Y", "R", "/", "H", "W", "\t", "K", "A", "I", "\\", " ", "{", ".", ".", "^", "A", ")", "P", "E", "/", "S", "T", "H", "S", "A", "N", " ", "A", "U", ")", "T", "O", "\\", "N", "}", " ", "[", "c", "c", "3", "5", ".", "2", "4", "]">>],
    [file |-> "27.Sirach.par", ln |-> 4843,
     re_confirm |-> <<"{", ".", ".", "}">>,
     redaction |-> <<"[", ".", ".", "]", "\t", "A", ")", "P", "O", "\\">>],
    [file |-> "11.1Sam.par", ln |-> 2096,
     re_confirm |-> <<"O", "\t">>,
     redaction |-> <<"-", "-", "+", " ", "'", "'", " ", "=", "K", "P", "W", "T", "\t", "O", "I", "(", " ", "K", "A", "R", "P", "O", "I", "\\">>],
    [file |-> "", ln |-> 2097,
     re_confirm |-> <<"T", "\t">>,
     redaction |-> <<"-", "-", "+", " ", "'", "'", " ", "=", ";", "Y", "D", "/", "Y", "W", "\t", "T", "W", "=", "N", " ", "X", "E", "I", "R", "W", "=", "N", " ", "A", "U", ")", "T", "O", "U", "=">>],
    [file |-> "13.1Kings.par", ln |-> 15936,
     re_confirm |-> <<"E", "I", ")", "S", "}", "\t">>,
     redaction |-> <<"W", "/", "Y", "B", "W", ")", "\t", "K", "A", "I", "\\", " ", "E", "I", ")", "S", "H", "=", "L", "Q", "E", "N", " ", "{", ".", ".", ".", "E", "I", ")", "S", "}">>],
    [file |-> "26.Job.par", ln |-> 2245,
     re_confirm |-> <<"O", "U", ")", "}", "\t">>,
     redaction |-> <<"W", "/", "L", ")", "\t", "{", ".", ".", "^", "O", "U", ")", "}", "D", "E", "\\">>],
    [file |-> "44.Ezekiel.par", ln |-> 471,
     re_confirm |-> <<"O", "U", "=", "}", " ", "M", "D", "B", "R">>,
     redaction |-> <<"M", "D", "B", "R", " ", "=", "v", "\t", "{", ".", ".", ".", "?", "A", "U", ")", "T", "O", "U", "=", "}", " ", "L", "A", "L", "O", "U", "=", "N", "T", "O", "S">>]
  >>

\* Lines the text was corrupted into before each edit: every one holds its
\* edit confirmation pattern (the data files are not part of the repository).
stale ==
  <<
    <<"M", "R", "Y", " ", "K", "A", "I", "\t", "X">>,
    <<".", "k", "b", " ", "#", " ", "K", "A", "I", "\t", "X">>,
    <<"1", "2", " ", "E", "\t", "X">>,
    <<"<", "1", "9", ".", "4", "9", ">", " ", "E", "\t", "X">>,
    <<"A", "\t", "<", "6", ".", "2", "0", ">", "\t", "B">>,
    <<"A", "\t", "<", "1", "9", ".", "4", "9", ">", "\t", "B">>,
    <<"-", "-", "+", " ", "'", " ", "\t", "X">>,
    <<"-", "-", "+", " ", "'", " ", "\t", "X">>,
    <<"C", "C", "3", "5", ".", "2", "4", "\t", "X">>,
    <<"{", ".", ".", "}", "\t", "X">>,
    <<"O", "\t", "B">>,
    <<"T", "\t", "B">>,
    <<"E", "I", ")", "S", "}", "\t", "B">>,
    <<"O", "U", ")", "}", "\t", "B">>,
    <<"O", "U", "=", "}", " ", "M", "D", "B", "R", "\t", "X">>
  >>

Plain == <<"a", "\t", "b">>
Gen_1_1 == <<"G", "e", "n", " ", "1", ":", "1">>
Exod_1_10 == <<"E", "x", "o", "d", " ", "1", ":", "1", "0">>
Exod_35_19 == <<"E", "x", "o", "d", " ", "3", "5", ":", "1", "9">>
Ps_18_40 == <<"P", "s", " ", "1", "8", ":", "4", "0">>
Ps_68_31 == <<"P", "s", " ", "6", "8", ":", "3", "1">>
MTR == <<"M", "T", "R">>
PS == <<"P", "S">>
TabGK == <<"\t", "G", "K">>
TabHash == <<"\t", "#">>
Empty == <<>>
continued_text == <<"c", "o", "n", "t", "i", "n", "u", "e", "d", " ", "t", "e", "x", "t">>
some_base_GK == <<"s", "o", "m", "e", " ", "b", "a", "s", "e", "\t", "G", "K">>
TAIL == <<"T", "A", "I", "L">>
W_X == <<"W", "~", "X", "\t", "Y", "'", "=", "Z">>

(***************************************************************************)
(* Python lists of lines, run-length encoded                               *)
(***************************************************************************)

\* len(f)
RECURSIVE PyLen(_)
PyLen(f) ==
  IF f = <<>> THEN 0 ELSE Head(f)[2] + PyLen(Tail(f))

\* f[n] for 0 <= n < len(f)
RECURSIVE PyGet(_, _)
PyGet(f, n) ==
  IF n < Head(f)[2] THEN Head(f)[1] ELSE PyGet(Tail(f), n - Head(f)[2])

\* f[n] with Python's negative indices: f[-1] is the last line
PyIndex(f, n) ==
  PyGet(f, IF n < 0 THEN n + PyLen(f) ELSE n)

\* f[:n]
RECURSIVE PyTake(_, _)
PyTake(f, n) ==
  IF n <= 0 \/ f = <<>> THEN <<>>
  ELSE IF n >= Head(f)[2]
       THEN <<Head(f)>> \o PyTake(Tail(f), n - Head(f)[2])
       ELSE << <<Head(f)[1], n>> >>

\* f[n:]
RECURSIVE PyDrop(_, _)
PyDrop(f, n) ==
  IF n <= 0 \/ f = <<>> THEN f
  ELSE IF n >= Head(f)[2]
       THEN PyDrop(Tail(f), n - Head(f)[2])
       ELSE << <<Head(f)[1], Head(f)[2] - n>> >> \o Tail(f)

\* f + g
PyCat(f, g) ==
  IF f = <<>> THEN g
  ELSE IF g = <<>> THEN f
  ELSE IF f[Len(f)][1] = g[1][1]
       THEN SubSeq(f, 1, Len(f) - 1)
            \o << <<g[1][1], f[Len(f)][2] + g[1][2]>> >> \o Tail(g)
       ELSE f \o g

\* [line]
PyList(line) == << <<line, 1>> >>

\* [line] * k
PyRepeat(line, k) == IF k > 0 THEN << <<line, k>> >> ELSE <<>>

\* f[n] = line
PySet(f, n, line) ==
  PyCat(PyTake(f, n), PyCat(PyList(line), PyDrop(f, n + 1)))

\* how many lines equal to f[n] follow from index n on without a break
RECURSIVE RunLeft(_, _)
RunLeft(f, n) ==
  IF n < Head(f)[2] THEN Head(f)[2] - n ELSE RunLeft(Tail(f), n - Head(f)[2])

(***************************************************************************)
(* Strings and regular expressions                                         *)
(***************************************************************************)

\* re.findall(pattern, line) is non-empty, for a pattern that is a literal text
re_findall(pattern, line) ==
  \E k \in 0..(Len(line) - Len(pattern)) :
    SubSeq(line, k + 1, k + Len(pattern)) = pattern

\* '\t' in line
has_tab(line) == \E k \in 1..Len(line) : line[k] = "\t"

\* current_verse.startswith('Ps')
startswith_Ps(v) == Len(v) >= 2 /\ v[1] = "P" /\ v[2] = "s"

\* The verse headings the pattern ref_string recognises at the start of a line.
Headings == {Gen_1_1, Exod_1_10, Exod_35_19, Ps_18_40, Ps_68_31}

\* ref_string.match(line): the line starts with a verse heading
ref_string_match(line) ==
  \E h \in Headings : Len(h) <= Len(line) /\ SubSeq(line, 1, Len(h)) = h

\* normalizations: 1 is ('~', '^'), 2 is ("(['^])=", '\g<1> =')
normalizations == 1..2

\* search.findall(line) is non-empty
search_findall(p, line) ==
  IF p = 1
  THEN \E k \in 1..Len(line) : line[k] = "~"
  ELSE \E k \in 1..(Len(line) - 1) : line[k] \in {"'", "^"} /\ line[k + 1] = "="

\* search.sub(replace, line): every match replaced, left to right
RECURSIVE search_sub(_, _)
search_sub(p, line) ==
  IF line = <<>> THEN <<>>
  ELSE IF p = 1
  THEN <<IF Head(line) = "~" THEN "^" ELSE Head(line)>> \o search_sub(p, Tail(line))
  ELSE IF Len(line) >= 2 /\ line[1] \in {"'", "^"} /\ line[2] = "="
       THEN <<line[1], " ", "=">> \o search_sub(p, SubSeq(line, 3, Len(line)))
       ELSE <<Head(line)>> \o search_sub(p, Tail(line))

(***************************************************************************)
(* The corpus                                                              *)
(***************************************************************************)

Genesis == "01.Genesis.par"
Exodus  == "02.Exodus.par"
Deut    == "05.Deut.par"
JoshB   == "06.JoshB.par"
Sam1    == "11.1Sam.par"
Kings1  == "13.1Kings.par"
Esdras1 == "17.1Esdras.par"
Psalms  == "20.Psalms.par"
Job     == "26.Job.par"
Sirach  == "27.Sirach.par"
Ezekiel == "44.Ezekiel.par"

Files == {Genesis, Exodus, Deut, JoshB, Sam1, Kings1, Esdras1, Psalms, Job,
          Sirach, Ezekiel}

\* The orders in which data.glob('*.par') may list the files that the model
\* explores; 05.Deut.par, the file with free content, comes first, after
\* 02.Exodus.par (the sorted order) or after 20.Psalms.par.
Orders ==
  { <<Deut, Genesis, Exodus, JoshB, Sam1, Kings1, Esdras1, Psalms, Job, Sirach, Ezekiel>>,
    <<Genesis, Exodus, Deut, JoshB, Sam1, Kings1, Esdras1, Psalms, Job, Sirach, Ezekiel>>,
    <<Genesis, Exodus, JoshB, Sam1, Kings1, Esdras1, Psalms, Deut, Job, Sirach, Ezekiel>> }

SortedOrder ==
  <<Genesis, Exodus, Deut, JoshB, Sam1, Kings1, Esdras1, Psalms, Job, Sirach, Ezekiel>>

\* the longest content of 05.Deut.par that is explored, in lines
MaxLen == 3

\* A file given by the lines at some indices, ordinary data lines in between.
RECURSIVE MkFileFrom(_, _)
MkFileFrom(sites, from) ==
  IF sites = <<>> THEN <<>>
  ELSE PyCat(PyRepeat(Plain, Head(sites)[1] - from),
             PyCat(PyList(Head(sites)[2]), MkFileFrom(Tail(sites), Head(sites)[1] + 1)))

MkFile(sites) == MkFileFrom(sites, 0)

\* file.read_text().split('\n') of a file holding the lines s
RECURSIVE ReadLines(_)
ReadLines(s) ==
  IF s = <<>> THEN <<>> ELSE PyCat(PyList(Head(s)), ReadLines(Tail(s)))

\* How the corpus differs from the one the program was written for: not at
\* all, one edited line has changed, an anchor line has changed, or a file
\* has been cut short.
NoDrift == [kind |-> "none", k |-> 0]

Drifts ==
  {NoDrift}
  \cup {[kind |-> "edit", k |-> k] : k \in 1..Len(edits)}
  \cup {[kind |-> "anchor", k |-> k] : k \in 1..4}
  \cup {[kind |-> "short", k |-> k] : k \in 1..5}

\* the line an edit is aimed at
EditLine(k, d) ==
  IF d.kind = "edit" /\ d.k = k THEN Plain ELSE stale[k]

\* the anchor line of a block repair, 1 Exodus, 2 Ps 68:31, 3 Ps 18:40; drift 4
\* changes all three
AnchorLine(k, d, expected) ==
  IF d.kind = "anchor" /\ d.k \in {k, 4} THEN Plain ELSE expected

Shorten(f, k, d, n) ==
  IF d.kind = "short" /\ d.k = k THEN PyTake(f, n) ELSE f

SourceFile(name, d, free) ==
  CASE name = Genesis ->
         MkFile(<< <<0, Gen_1_1>>,
                   <<edits[7].ln, EditLine(7, d)>>, <<edits[8].ln, EditLine(8, d)>> >>)
    [] name = Exodus ->
         Shorten(Shorten(
           MkFile(<< <<16283, Empty>>, <<16284, AnchorLine(1, d, Exod_1_10)>>,
                     <<16285, TabHash>>, <<16286, Empty>>, <<16287, Exod_35_19>>,
                     <<16289, Plain>> >>),
           2, d, 16284), 3, d, 16285)
    [] name = Deut -> free
    [] name = JoshB ->
         MkFile(<< <<edits[1].ln, EditLine(1, d)>>, <<edits[2].ln, EditLine(2, d)>>,
                   <<edits[5].ln, EditLine(5, d)>>, <<edits[3].ln, EditLine(3, d)>>,
                   <<edits[6].ln, EditLine(6, d)>>, <<edits[4].ln, EditLine(4, d)>> >>)
    [] name = Sam1 ->
         MkFile(<< <<edits[11].ln, EditLine(11, d)>>, <<edits[12].ln, EditLine(12, d)>> >>)
    [] name = Kings1 -> MkFile(<< <<edits[13].ln, EditLine(13, d)>> >>)
    [] name = Esdras1 -> MkFile(<< <<edits[9].ln, EditLine(9, d)>> >>)
    [] name = Psalms ->
         Shorten(Shorten(
           MkFile(<< <<2456, Empty>>, <<2457, TabHash>>, <<2458, Empty>>,
                     <<2459, AnchorLine(3, d, Ps_18_40)>>,
                     <<10847, Ps_68_31>>, <<10848, AnchorLine(2, d, MTR)>>,
                     <<10849, PS>>, <<10850, TabGK>>, <<10851, Plain>> >>),
           4, d, 10849), 5, d, 2460)
    [] name = Job -> MkFile(<< <<edits[14].ln, EditLine(14, d)>> >>)
    [] name = Sirach -> MkFile(<< <<edits[10].ln, EditLine(10, d)>> >>)
    [] name = Ezekiel ->
         Shorten(MkFile(<< <<edits[15].ln, EditLine(15, d)>> >>), 1, d, 1)

\* the lines 05.Deut.par is made of
FreeLines == {Ps_68_31, Gen_1_1, TAIL, some_base_GK, Empty}

\* contents of 05.Deut.par that are explored beside the sequences over FreeLines
Examples ==
  { <<Ps_68_31, MTR, continued_text>>,
    <<Gen_1_1, some_base_GK, TAIL>>,
    <<Gen_1_1, W_X, Empty>>,
    <<Ps_68_31, TAIL, Gen_1_1, TAIL, some_base_GK>> }

FreeFiles ==
  {ReadLines(s) : s \in UNION {[1..n -> FreeLines] : n \in 1..MaxLen} \cup Examples}

(***************************************************************************)
(* State                                                                   *)
(***************************************************************************)

VARIABLES
  file2lines,      \* file name -> list of lines
  order,           \* the order of the files in file2lines
  log,             \* the messages given to report(), in order
  pc,              \* where patch() is
  exc,             \* the exception that ended the run, or "none"
  e,               \* manual edits: position in edits
  file,            \* manual edits: the file name in force
  pss,             \* the list of 20.Psalms.par taken before the Psalms repairs
  current_verse,   \* orphaned lines: <<>> for None, <<line>> otherwise
  fi,              \* orphaned lines: position in order
  i,               \* orphaned lines: position in lines
  filtered_lines,  \* orphaned lines: the lines kept so far
  np,              \* normalizations: position in normalizations
  written,         \* the files and the log have been written
  run,             \* 1: the corpus as loaded from source; 2: patch() run again on its output
  input_len        \* file name -> number of lines loaded by this run

vars == <<file2lines, order, log, pc, exc, e, file, pss, current_verse, fi, i,
          filtered_lines, np, written, run, input_len>>

None == <<>>
Some(line) == <<line>>

\* report(msg)
report(lg, msg) == Append(lg, msg)

\* the state patch() starts from once file2lines is loaded
Start(corpus, ord, r) ==
  /\ file2lines = corpus
  /\ order = ord
  /\ log = <<<<"timestamp">>, <<"applying bulk manual edits...">>>>
  /\ pc = "edits"
  /\ exc = "none"
  /\ e = 1
  /\ file = ""
  /\ pss = <<>>
  /\ current_verse = None
  /\ fi = 1
  /\ i = 0
  /\ filtered_lines = <<>>
  /\ np = 1
  /\ written = FALSE
  /\ run = r
  /\ input_len = [f \in Files |-> PyLen(corpus[f])]

Init ==
  \/ \E free \in FreeFiles, ord \in Orders :
       Start([f \in Files |-> SourceFile(f, NoDrift, free)], ord, 1)
  \/ \E d \in Drifts \ {NoDrift} :
       Start([f \in Files |-> SourceFile(f, d, PyList(Empty))], SortedOrder, 1)

Crash(name) ==
  /\ pc' = "crashed"
  /\ exc' = name

(***************************************************************************)
(* Manual edits                                                            *)
(***************************************************************************)

\* file = edit[0] or file
edit_file == IF edits[e].file # "" THEN edits[e].file ELSE file

\* file2lines[file][ln] raises IndexError
EditOutOfRange == edits[e].ln >= PyLen(file2lines[edit_file])

\* old_line = file2lines[file][ln]
old_line == PyGet(file2lines[edit_file], edits[e].ln)

\* variant: the edit is applied without looking at the line
EditUnconfirmed(re_confirm, line) == TRUE

\* if re.findall(re_confirm, old_line)
EditConfirmed(re_confirm, line) == re_findall(re_confirm, line)

EditDone ==
  /\ file' = edit_file
  /\ e' = e + 1
  /\ pc' = IF e = Len(edits) THEN "exodus" ELSE "edits"
  /\ UNCHANGED <<order, exc, pss, current_verse, fi, i, filtered_lines, np, written,
                 run, input_len>>

ManualEditApply ==
  /\ pc = "edits"
  /\ ~EditOutOfRange
  /\ EditConfirmed(edits[e].re_confirm, old_line)
  /\ file2lines' = [file2lines EXCEPT
                      ![edit_file] = PySet(@, edits[e].ln, edits[e].redaction)]
  /\ log' = log \o << <<"correction", edit_file, edits[e].ln>>,
                      <<"OLD", old_line>>,
                      <<"NEW", edits[e].redaction>> >>
  /\ EditDone

ManualEditSkip ==
  /\ pc = "edits"
  /\ ~EditOutOfRange
  /\ ~EditConfirmed(edits[e].re_confirm, old_line)
  /\ log' = log \o << <<"WARNING: THE FOLLOWING EDIT WAS NOT CONFIRMED">>,
                      <<"OLD", old_line>>,
                      <<"EDIT", edit_file, edits[e].ln, edits[e].re_confirm,
                        edits[e].redaction>> >>
  /\ UNCHANGED file2lines
  /\ EditDone

ManualEditIndexError ==
  /\ pc = "edits"
  /\ EditOutOfRange
  /\ file' = edit_file
  /\ Crash("IndexError")
  /\ UNCHANGED <<file2lines, order, log, e, pss, current_verse, fi, i, filtered_lines,
                 np, written, run, input_len>>

(***************************************************************************)
(* Block repairs                                                           *)
(***************************************************************************)

RepairFrame ==
  UNCHANGED <<order, e, file, current_verse, fi, i, filtered_lines, np, written, run,
              input_len>>

\* exod = file2lines['02.Exodus.par']
exod == file2lines[Exodus]

\* variant: the repair is applied whatever the anchor line holds
ExodusAnchorIgnored(lines) == TRUE

\* if exod[16284] == 'Exod 1:10'
ExodusAnchor(lines) == PyGet(lines, 16284) = Exod_1_10

\* fixed_lines = exod[:16283] + [exod[16285]] + exod[16288:]
ExodusFixed(lines) ==
  PyCat(PyTake(lines, 16283), PyCat(PyList(PyGet(lines, 16285)), PyDrop(lines, 16288)))

ExodusRepair ==
  /\ pc = "exodus"
  /\ PyLen(exod) > 16285
  /\ ExodusAnchor(exod)
  /\ file2lines' = [file2lines EXCEPT ![Exodus] = ExodusFixed(exod)]
  /\ log' = log \o << <<"patching corrupt lines 16283-16289 in 02.Exodus.par...">>,
                      <<"done">> >>
  /\ pc' = "ps68"
  /\ UNCHANGED <<exc, pss>>
  /\ RepairFrame

ExodusSkip ==
  /\ pc = "exodus"
  /\ PyLen(exod) > 16284
  /\ ~ExodusAnchor(exod)
  /\ log' = report(log, <<"WARNING: SKIPPING EXODUS CORRUPTION REPAIR">>)
  /\ pc' = "ps68"
  /\ UNCHANGED <<file2lines, exc, pss>>
  /\ RepairFrame

\* exod[16284] or, with the anchor on the last line, exod[16285] is out of range
ExodusIndexError ==
  /\ pc = "exodus"
  /\ PyLen(exod) <= 16285
  /\ log' = IF PyLen(exod) > 16284 /\ ExodusAnchor(exod)
            THEN report(log, <<"patching corrupt lines 16283-16289 in 02.Exodus.par...">>)
            ELSE log
  /\ PyLen(exod) > 16284 => ExodusAnchor(exod)
  /\ Crash("IndexError")
  /\ UNCHANGED <<file2lines, pss>>
  /\ RepairFrame

\* if pss[10848] == 'MTR'
Ps68Anchor(lines) == PyGet(lines, 10848) = MTR

\* ps68_31_patch = [pss[10848] + pss[10849] + pss[10850]]
\* pss[:10848] + ps68_31_patch + pss[10851:]
Ps68Fixed(lines) ==
  PyCat(PyTake(lines, 10848),
        PyCat(PyList(PyGet(lines, 10848) \o PyGet(lines, 10849) \o PyGet(lines, 10850)),
              PyDrop(lines, 10851)))

\* pss = file2lines['20.Psalms.par'] is taken here, once
Ps68Repair ==
  /\ pc = "ps68"
  /\ PyLen(file2lines[Psalms]) > 10850
  /\ Ps68Anchor(file2lines[Psalms])
  /\ pss' = file2lines[Psalms]
  /\ file2lines' = [file2lines EXCEPT ![Psalms] = Ps68Fixed(pss')]
  /\ log' = log \o << <<"patching double-orphaned lines in lines 10849-10851 of 20.Psalms.par (Ps 68:31)">>,
                      <<"done">> >>
  /\ pc' = "ps18"
  /\ UNCHANGED exc
  /\ RepairFrame

Ps68Skip ==
  /\ pc = "ps68"
  /\ PyLen(file2lines[Psalms]) > 10848
  /\ ~Ps68Anchor(file2lines[Psalms])
  /\ pss' = file2lines[Psalms]
  /\ log' = report(log, <<"WARNING: SKIPPING PSALMS ORPHAN REPAIR">>)
  /\ pc' = "ps18"
  /\ UNCHANGED <<file2lines, exc>>
  /\ RepairFrame

\* pss[10848] or, with the anchor on one of the last two lines, pss[10849] or
\* pss[10850] is out of range
Ps68IndexError ==
  /\ pc = "ps68"
  /\ PyLen(file2lines[Psalms]) <= 10850
  /\ PyLen(file2lines[Psalms]) > 10848 => Ps68Anchor(file2lines[Psalms])
  /\ pss' = file2lines[Psalms]
  /\ log' = IF PyLen(file2lines[Psalms]) > 10848
            THEN report(log, <<"patching double-orphaned lines in lines 10849-10851 of 20.Psalms.par (Ps 68:31)">>)
            ELSE log
  /\ Crash("IndexError")
  /\ UNCHANGED file2lines
  /\ RepairFrame

\* if pss[2459] == 'Ps 18:40'
Ps18Anchor(lines) == PyGet(lines, 2459) = Ps_18_40

\* fixed_lines = pss[:2456] + [pss[2457]] + pss[2460:]
Ps18Fixed(lines) ==
  PyCat(PyTake(lines, 2456), PyCat(PyList(PyGet(lines, 2457)), PyDrop(lines, 2460)))

\* pss has more than 10848 lines here, so pss[2459] and pss[2457] exist
Ps18Repair ==
  /\ pc = "ps18"
  /\ Ps18Anchor(pss)
  /\ file2lines' = [file2lines EXCEPT
                      ![Psalms] = Ps18Fixed(pss)]
  /\ log' = log \o << <<"patching corrupt lines 2457-2461 in 20.Psalms.par...">>,
                      <<"done">>,
                      <<"patching orphaned lines (see code for description)...">> >>
  /\ pc' = "orphans"
  /\ UNCHANGED <<exc, pss>>
  /\ RepairFrame

Ps18Skip ==
  /\ pc = "ps18"
  /\ ~Ps18Anchor(pss)
  /\ log' = log \o << <<"WARNING: SKIPPING PSALMS ORPHAN REPAIR #2">>,
                      <<"patching orphaned lines (see code for description)...">> >>
  /\ pc' = "orphans"
  /\ UNCHANGED <<file2lines, exc, pss>>
  /\ RepairFrame

(***************************************************************************)
(* Orphaned lines                                                          *)
(***************************************************************************)

\* for file, lines in file2lines.items()
lines == file2lines[order[fi]]

\* line = lines[i]
line == PyGet(lines, i)

InLoop == pc = "orphans" /\ i < PyLen(lines)

\* elif line and '\t' not in line
IsOrphan(l) == l # <<>> /\ ~has_tab(l)

OrphanFrame ==
  UNCHANGED <<order, e, file, pss, fi, np, written, run, input_len>>

\* report(f'\tpatching {file} at line {i}, {current_verse}:{show}'), where show
\* holds lines[i-1], line and lines[i+1]
OrphanReport ==
  report(log, <<"patching", order[fi], i, current_verse,
                PyIndex(lines, i - 1), line, PyGet(lines, i + 1)>>)

\* track references and keep them
OrphanRef ==
  /\ InLoop
  /\ ref_string_match(line)
  /\ current_verse' = Some(line)
  /\ filtered_lines' = PyCat(filtered_lines, PyList(line))
  /\ i' = i + 1
  /\ UNCHANGED <<file2lines, log, pc, exc>>
  /\ OrphanFrame

\* variant: the fragment is put behind the next line instead of before it
MergeDownBehind(kept, l, next) == PyCat(kept, PyList(next \o l))

\* filtered_lines.append(line+lines[i+1]); i += 1; ...; i += 1
MergeDown(kept, l, next) == PyCat(kept, PyList(l \o next))

OrphanDown ==
  /\ InLoop
  /\ ~ref_string_match(line)
  /\ IsOrphan(line)
  /\ i + 1 < PyLen(lines)
  /\ current_verse # None
  /\ startswith_Ps(current_verse[1])
  /\ log' = OrphanReport
  /\ filtered_lines' = MergeDown(filtered_lines, line, PyGet(lines, i + 1))
  /\ i' = i + 2
  /\ UNCHANGED <<file2lines, pc, exc, current_verse>>
  /\ OrphanFrame

\* filtered_lines[-1] = filtered_lines[-1] + line
MergeUp(kept, l) ==
  PyCat(PyTake(kept, PyLen(kept) - 1), PyList(PyIndex(kept, -1) \o l))

OrphanUp ==
  /\ InLoop
  /\ ~ref_string_match(line)
  /\ IsOrphan(line)
  /\ i + 1 < PyLen(lines)
  /\ current_verse # None
  /\ ~startswith_Ps(current_verse[1])
  /\ filtered_lines # <<>>
  /\ log' = OrphanReport
  /\ filtered_lines' = MergeUp(filtered_lines, line)
  /\ i' = i + 1
  /\ UNCHANGED <<file2lines, pc, exc, current_verse>>
  /\ OrphanFrame

\* keep everything else unchanged; the lines equal to this one that follow it
\* without a break are kept with it
OrphanKeep ==
  /\ InLoop
  /\ ~ref_string_match(line)
  /\ ~IsOrphan(line)
  /\ filtered_lines' = PyCat(filtered_lines, PyRepeat(line, RunLeft(lines, i)))
  /\ i' = i + RunLeft(lines, i)
  /\ UNCHANGED <<file2lines, log, pc, exc, current_verse>>
  /\ OrphanFrame

\* lines[i+1] in the report of an orphaned line that is the last line of its file
OrphanNextIndexError ==
  /\ InLoop
  /\ ~ref_string_match(line)
  /\ IsOrphan(line)
  /\ i + 1 >= PyLen(lines)
  /\ Crash("IndexError")
  /\ UNCHANGED <<file2lines, log, current_verse, i, filtered_lines>>
  /\ OrphanFrame

\* current_verse.startswith on None: an orphaned line before any reference line
OrphanAttributeError ==
  /\ InLoop
  /\ ~ref_string_match(line)
  /\ IsOrphan(line)
  /\ i + 1 < PyLen(lines)
  /\ current_verse = None
  /\ log' = OrphanReport
  /\ Crash("AttributeError")
  /\ UNCHANGED <<file2lines, current_verse, i, filtered_lines>>
  /\ OrphanFrame

\* filtered_lines[-1] with nothing kept yet
OrphanUpIndexError ==
  /\ InLoop
  /\ ~ref_string_match(line)
  /\ IsOrphan(line)
  /\ i + 1 < PyLen(lines)
  /\ current_verse # None
  /\ ~startswith_Ps(current_verse[1])
  /\ filtered_lines = <<>>
  /\ log' = OrphanReport
  /\ Crash("IndexError")
  /\ UNCHANGED <<file2lines, current_verse, i, filtered_lines>>
  /\ OrphanFrame

\* file2lines[file] = filtered_lines, and the next file; after the last one
\* report('\tdone') and report('\nMaking various bulk regex normalizations...\n')
OrphanFileDone ==
  /\ pc = "orphans"
  /\ i >= PyLen(lines)
  /\ file2lines' = [file2lines EXCEPT ![order[fi]] = filtered_lines]
  /\ filtered_lines' = <<>>
  /\ i' = 0
  /\ IF fi < Len(order)
     THEN /\ fi' = fi + 1
          /\ UNCHANGED <<log, pc>>
     ELSE /\ fi' = fi
          /\ log' = log \o << <<"done">>, <<"Making various bulk regex normalizations...">> >>
          /\ pc' = "norm"
  /\ UNCHANGED <<order, exc, e, file, pss, current_verse, np, written, run, input_len>>

(***************************************************************************)
(* Bulk normalizations                                                     *)
(***************************************************************************)

\* s * k, for a Python list s that is not run-length encoded
RECURSIVE Times(_, _)
Times(s, k) == IF k <= 0 \/ s = <<>> THEN <<>> ELSE s \o Times(s, k - 1)

\* f * k
RECURSIVE PyTimes(_, _)
PyTimes(f, k) ==
  IF k <= 0 \/ f = <<>> THEN <<>>
  ELSE IF Len(f) = 1 THEN PyRepeat(f[1][1], f[1][2] * k)
  ELSE PyCat(f, PyTimes(f, k - 1))

\* What one turn of the inner loop appends to new_lines for a line:
\* the line itself if it is a reference line, and then, in any case, the
\* substituted line if the pattern matches or else the line.
NormLine(p, l) ==
  PyCat(IF ref_string_match(l) THEN PyList(l) ELSE <<>>,
        PyList(IF search_findall(p, l) THEN search_sub(p, l) ELSE l))

\* the reports of that turn
NormLineLog(p, name, l, curr_verse) ==
  IF search_findall(p, l)
  THEN << <<"normalization", name, curr_verse>>,
          <<"OLD", l>>,
          <<"NEW", search_sub(p, l)>> >>
  ELSE <<>>

\* the inner loop over lines, from curr_verse: new_lines
RECURSIVE NormLines(_, _)
NormLines(p, ls) ==
  IF ls = <<>> THEN <<>>
  ELSE PyCat(PyTimes(NormLine(p, Head(ls)[1]), Head(ls)[2]), NormLines(p, Tail(ls)))

\* the inner loop over lines, from curr_verse: the reports
RECURSIVE NormLinesLog(_, _, _, _)
NormLinesLog(p, name, ls, curr_verse) ==
  IF ls = <<>> THEN <<>>
  ELSE LET l  == Head(ls)[1]
           cv == IF ref_string_match(l) THEN l ELSE curr_verse
       IN  Times(NormLineLog(p, name, l, cv), Head(ls)[2])
           \o NormLinesLog(p, name, Tail(ls), cv)

\* the reports of one pattern over the files from position k of order on
RECURSIVE NormCorpusLog(_, _)
NormCorpusLog(p, k) ==
  IF k > Len(order) THEN <<>>
  ELSE NormLinesLog(p, order[k], file2lines[order[k]], Empty) \o NormCorpusLog(p, k + 1)

\* one pattern over every file; after the last pattern
\* report(f'writing patched data to {output_dir}')
NormalizePass ==
  /\ pc = "norm"
  /\ file2lines' = [f \in Files |-> NormLines(np, file2lines[f])]
  /\ log' = IF np < 2
            THEN log \o NormCorpusLog(np, 1)
            ELSE log \o NormCorpusLog(np, 1) \o << <<"writing patched data">> >>
  /\ np' = np + 1
  /\ pc' = IF np < 2 THEN "norm" ELSE "write"
  /\ UNCHANGED <<order, exc, e, file, pss, current_verse, fi, i, filtered_lines, written,
                 run, input_len>>

(***************************************************************************)
(* Output                                                                  *)
(***************************************************************************)

\* the files and log.txt are written; report('DONE with all patches!')
WriteOutput ==
  /\ pc = "write"
  /\ written' = TRUE
  /\ log' = report(log, <<"DONE with all patches!">>)
  /\ pc' = "done"
  /\ UNCHANGED <<file2lines, order, exc, e, file, pss, current_verse, fi, i,
                 filtered_lines, np, run, input_len>>

\* '\n'.join(lines) written and read back with split('\n'): no list of lines
\* is empty after loading, an empty text is the one line ''
Reload(f) == IF f = <<>> THEN PyList(Empty) ELSE f

\* patch() called again, with the directory just written as data_dir
Rerun ==
  /\ pc = "done"
  /\ run = 1
  /\ file2lines' = [f \in Files |-> Reload(file2lines[f])]
  /\ log' = <<<<"timestamp">>, <<"applying bulk manual edits...">>>>
  /\ pc' = "edits"
  /\ e' = 1
  /\ file' = ""
  /\ pss' = <<>>
  /\ current_verse' = None
  /\ fi' = 1
  /\ i' = 0
  /\ filtered_lines' = <<>>
  /\ np' = 1
  /\ written' = FALSE
  /\ run' = 2
  /\ input_len' = [f \in Files |-> PyLen(file2lines'[f])]
  /\ UNCHANGED <<order, exc>>

Next ==
  \/ ManualEditApply
  \/ ManualEditSkip
  \/ ManualEditIndexError
  \/ ExodusRepair
  \/ ExodusSkip
  \/ ExodusIndexError
  \/ Ps68Repair
  \/ Ps68Skip
  \/ Ps68IndexError
  \/ Ps18Repair
  \/ Ps18Skip
  \/ OrphanRef
  \/ OrphanDown
  \/ OrphanUp
  \/ OrphanKeep
  \/ OrphanNextIndexError
  \/ OrphanAttributeError
  \/ OrphanUpIndexError
  \/ OrphanFileDone
  \/ NormalizePass
  \/ WriteOutput
  \/ Rerun

Spec == Init /\ [][Next]_vars

(***************************************************************************)
(* Properties                                                              *)
(***************************************************************************)

\* whether some report in the log is msg
Logged(msg) == \E k \in 1..Len(log) : log[k] = msg

\* the last line of a non-empty list
PyLast(f) == f[Len(f)][1]

NotConfirmedWarning == <<"WARNING: THE FOLLOWING EDIT WAS NOT CONFIRMED">>

\* C2: a manual edit whose confirmation pattern does not match the line it is
\* aimed at changes no line of the corpus, reports the warning that the edit
\* was not confirmed, the stale line and the edit record, and the loop goes
\* on with the next edit record.
C2_UnconfirmedEditSkipped ==
  [][ (/\ pc = "edits"
       /\ ~EditOutOfRange
       /\ ~re_findall(edits[e].re_confirm, PyGet(file2lines[edit_file], edits[e].ln)))
      => /\ file2lines' = file2lines
         /\ log' = log \o << NotConfirmedWarning,
                             <<"OLD", PyGet(file2lines[edit_file], edits[e].ln)>>,
                             <<"EDIT", edit_file, edits[e].ln, edits[e].re_confirm,
                               edits[e].redaction>> >>
         /\ e' = e + 1
         /\ pc' = IF e < Len(edits) THEN "edits" ELSE "exodus" ]_vars

\* C2 happens: the first run is past the manual edits, one of them was not
\* confirmed, and the line it was aimed at is still what was loaded
C2_Witness ==
  /\ pc = "exodus"
  /\ run = 1
  /\ Logged(NotConfirmedWarning)
  /\ Logged(<<"OLD", Plain>>)
  /\ \E k \in 1..Len(edits) :
       /\ Logged(<<"EDIT", JoshB, edits[k].ln, edits[k].re_confirm, edits[k].redaction>>)
       /\ PyGet(file2lines[JoshB], edits[k].ln) = Plain

ExodusWarning == <<"WARNING: SKIPPING EXODUS CORRUPTION REPAIR">>
Ps68Warning == <<"WARNING: SKIPPING PSALMS ORPHAN REPAIR">>
Ps18Warning == <<"WARNING: SKIPPING PSALMS ORPHAN REPAIR #2">>

\* C3: each of the three block repairs changes its file only if the anchor
\* line (02.Exodus.par line 16284, 20.Psalms.par lines 10848 and 2459) is the
\* expected one; if the anchor line is another one the corpus is left as it
\* is and the warning of that repair is reported.
C3_RepairOnlyOnAnchor ==
  [][ /\ (pc = "exodus" /\ PyLen(file2lines[Exodus]) > 16284) =>
           /\ file2lines' # file2lines => PyGet(file2lines[Exodus], 16284) = Exod_1_10
           /\ PyGet(file2lines[Exodus], 16284) # Exod_1_10 =>
                /\ file2lines' = file2lines
                /\ log' = Append(log, ExodusWarning)
      /\ (pc = "ps68" /\ PyLen(file2lines[Psalms]) > 10848) =>
           /\ file2lines' # file2lines => PyGet(file2lines[Psalms], 10848) = MTR
           /\ PyGet(file2lines[Psalms], 10848) # MTR =>
                /\ file2lines' = file2lines
                /\ log' = Append(log, Ps68Warning)
      /\ (pc = "ps18" /\ PyLen(file2lines[Psalms]) > 2459) =>
           /\ file2lines' # file2lines => PyGet(file2lines[Psalms], 2459) = Ps_18_40
           /\ PyGet(file2lines[Psalms], 2459) # Ps_18_40 =>
                /\ file2lines' = file2lines
                /\ Len(log') > Len(log)
                /\ log'[Len(log) + 1] = Ps18Warning ]_vars

\* C3 happens: all three anchor lines differ, the three repairs were skipped
\* with their warnings and both files still have every line they were loaded with
C3_Witness ==
  /\ pc = "orphans"
  /\ run = 1
  /\ Logged(ExodusWarning) /\ Logged(Ps68Warning) /\ Logged(Ps18Warning)
  /\ PyGet(file2lines[Exodus], 16284) = Plain
  /\ PyLen(file2lines[Exodus]) = input_len[Exodus]
  /\ PyLen(file2lines[Psalms]) = input_len[Psalms]

\* the orphaned line at i is followed by a line and is in a Psalms verse
PsalmsOrphanAt ==
  /\ InLoop
  /\ i + 1 < PyLen(lines)
  /\ ~ref_string_match(PyGet(lines, i))
  /\ PyGet(lines, i) # <<>>
  /\ ~has_tab(PyGet(lines, i))
  /\ current_verse # None
  /\ startswith_Ps(current_verse[1])

C4_Input == ReadLines(<<Ps_68_31, MTR, continued_text>>)
C4_Output == ReadLines(<<Ps_68_31, MTR \o continued_text>>)

\* C4: an orphaned line in a Psalms verse is merged downward: the one line
\* added to the output is the fragment followed by the next input line, and
\* the scan goes on behind that next line; the lines Ps 68:31, MTR,
\* continued text become Ps 68:31, MTRcontinued text.
C4_DownwardMerge ==
  /\ [][ PsalmsOrphanAt
         => /\ PyLen(filtered_lines') = PyLen(filtered_lines) + 1
            /\ PyTake(filtered_lines', PyLen(filtered_lines)) = filtered_lines
            /\ PyLast(filtered_lines') = PyGet(lines, i) \o PyGet(lines, i + 1)
            /\ i' = i + 2
            /\ pc' = "orphans" ]_vars
  /\ [](pc = "orphans" /\ lines = C4_Input /\ i >= PyLen(lines)
        => filtered_lines = C4_Output)

\* C4 happens: the scan of the three example lines has ended with the merged line
C4_Witness ==
  /\ pc = "orphans"
  /\ order[fi] = Deut
  /\ lines = C4_Input
  /\ i = 3
  /\ filtered_lines = C4_Output
  /\ Len(log[Len(log)]) = 7
  /\ log[Len(log)][6] = MTR

ExodusPatched == <<"patching corrupt lines 16283-16289 in 02.Exodus.par...">>
Ps68Patched ==
  <<"patching double-orphaned lines in lines 10849-10851 of 20.Psalms.par (Ps 68:31)">>
Ps18Patched == <<"patching corrupt lines 2457-2461 in 20.Psalms.par...">>

\* the lines a block repair that was applied takes out of a file: the Exodus
\* repair drops 5 lines for 1, the Ps 68:31 repair makes 1 line of 3 and the
\* Ps 18:40 repair drops 4 lines for 1
Excised(name) ==
  IF name = Exodus THEN (IF Logged(ExodusPatched) THEN 4 ELSE 0)
  ELSE IF name = Psalms
  THEN (IF Logged(Ps68Patched) THEN 2 ELSE 0) + (IF Logged(Ps18Patched) THEN 3 ELSE 0)
  ELSE 0

\* the orphaned lines of a file that were merged into a neighbour
Merged(name) ==
  Cardinality({k \in 1..Len(log) : log[k][1] = "patching" /\ log[k][2] = name})

\* C1: when the pipeline is through, every file has the lines it was loaded
\* with less the lines taken out by the block repairs that were applied and
\* less one line for each orphaned line merged.
C1_LinesConserved ==
  pc = "done" =>
    \A name \in Files :
      PyLen(file2lines[name]) = input_len[name] - Excised(name) - Merged(name)

\* the orphaned line at i is in a verse that is not of the Psalms
OtherOrphanAt ==
  /\ InLoop
  /\ ~ref_string_match(PyGet(lines, i))
  /\ PyGet(lines, i) # <<>>
  /\ ~has_tab(PyGet(lines, i))
  /\ current_verse # None
  /\ ~startswith_Ps(current_verse[1])

C5_Input == ReadLines(<<Gen_1_1, some_base_GK, TAIL>>)
C5_Output == ReadLines(<<Gen_1_1, some_base_GK \o TAIL>>)

\* C5: an orphaned line in a verse that is not of the Psalms is merged upward
\* wherever it stands in the file: it is appended to the last line of the
\* output, no line is added for it, and the scan goes on with the next line;
\* the lines Gen 1:1, some base<tab>GK, TAIL become Gen 1:1, some base<tab>GKTAIL.
C5_UpwardMerge ==
  /\ [][ OtherOrphanAt
         => /\ filtered_lines # <<>>
            /\ PyLen(filtered_lines') = PyLen(filtered_lines)
            /\ PyTake(filtered_lines', PyLen(filtered_lines) - 1)
                 = PyTake(filtered_lines, PyLen(filtered_lines) - 1)
            /\ PyLast(filtered_lines') = PyLast(filtered_lines) \o PyGet(lines, i)
            /\ i' = i + 1
            /\ pc' = "orphans" ]_vars
  /\ [](/\ order[fi] = Deut /\ lines = C5_Input /\ i > 0
        => /\ pc = "orphans"
           /\ i >= PyLen(lines) => filtered_lines = C5_Output)

\* C6: in a second run, on the files the first run wrote, no normalization
\* changes the corpus, no manual edit is applied and the run does not end in
\* an exception.
C6_SecondRunBenign ==
  /\ [][ run = 2 /\ pc = "norm" => file2lines' = file2lines ]_vars
  /\ [][ run = 2 /\ pc = "edits" => file2lines' = file2lines ]_vars
  /\ [](run = 2 => pc # "crashed")

\* C7: a run never ends in an exception: every loaded corpus gets through
\* the four stages to the writing of the output.
C7_NeverHalts == pc # "crashed"

\* the reference lines of a list of lines, in order
RECURSIVE RefLines(_)
RefLines(f) ==
  IF f = <<>> THEN <<>>
  ELSE IF ref_string_match(Head(f)[1])
       THEN PyCat(<<Head(f)>>, RefLines(Tail(f)))
       ELSE RefLines(Tail(f))

\* C8: the orphaned-line repair of a file and each normalization of the
\* corpus give out the reference lines they were given: the same lines, as
\* often and in the same order.
C8_ReferenceLinesKept ==
  /\ [][ pc = "orphans" /\ i >= PyLen(lines)
         => RefLines(file2lines'[order[fi]]) = RefLines(lines) ]_vars
  /\ [][ pc = "norm"
         => \A name \in Files : RefLines(file2lines'[name]) = RefLines(file2lines[name]) ]_vars

\* C9: wherever the scan of a file stands behind a reference line, the verse
\* in current_verse is the last reference line before that place.
C9_NearestReference ==
  (InLoop /\ RefLines(PyTake(lines, i)) # <<>>)
    => current_verse = Some(PyLast(RefLines(PyTake(lines, i))))

\* C10: once both Psalms repairs have been applied, the list of 20.Psalms.par
\* the orphaned-line repair starts from has the lines 10848-10850 in one line
\* and the block at 2456-2459 cut down to line 2457.
C10_RepairsCompose ==
  (/\ pc = "orphans" /\ fi = 1 /\ i = 0
   /\ Logged(Ps68Patched) /\ Logged(Ps18Patched))
    => file2lines[Psalms] =
         PyCat(PyTake(pss, 2456),
         PyCat(PyList(PyGet(pss, 2457)),
         PyCat(PyTake(PyDrop(pss, 2460), 10848 - 2460),
         PyCat(PyList(PyGet(pss, 10848) \o PyGet(pss, 10849) \o PyGet(pss, 10850)),
               PyDrop(pss, 10851)))))

====
